---------------------------- MODULE Spec2Model ----------------------------
(***************************************************************************)
(* A model of extract_codenet_split.py: the ID loader (load_id_list), the  *)
(* metadata indexer (build_submission_index), the label mapping            *)
(* (map_status_to_label) and the per-split extraction loop                 *)
(* (extract_split).                                                        *)
(*                                                                         *)
(* Python strings are modelled as sequences of one-character strings, so   *)
(* that matching, trimming, case conversion and concatenation are computed *)
(* rather than assumed.  File contents are opaque and kept as TLA+ strings.*)
(***************************************************************************)
EXTENDS Integers, Sequences, FiniteSets, TLC

VARIABLES
    \* the environment: the split's ID file and the corpus
    id_file,        \* the JSON array of the split's ID file, a sequence of entries
    meta_tables,    \* problem_id -> the rows of metadata/<problem_id>.csv (no key: no table)
    files,          \* resolved path -> "ok" (a readable file) or "unreadable"; no key: absent
    \* extract_split
    pc,             \* where the run is: "start", "open", "index", "sid", "done", "failed"
    err,            \* the exception that ended the run, NoError while there is none
    ids,            \* load_id_list's result
    by_problem,     \* the insertion-ordered dict pid -> sids, a sequence of [pid, sids]
    gi,             \* position of the outer loop in by_problem
    si,             \* position of the inner loop in the current group's sids
    idx,            \* the current problem's index: sid -> [language, filename, row]
    out_exists,     \* whether OUT_DIR/<split>.jsonl exists
    out_jsonl,      \* the lines of OUT_DIR/<split>.jsonl
    raw,            \* the raw tree: the set of [path, code] copied under OUT_DIR/raw/<split>
    count_written,
    missing_meta,
    missing_file,
    index_calls,    \* the problem ids build_submission_index was called with, in call order
    reports,        \* what each finished run left behind, in run order
    \* the functions checked on their own
    arg,            \* the argument of the function under check
    ret             \* its result, NotReturned before the call

vars == <<id_file, meta_tables, files, pc, err, ids, by_problem, gi, si, idx,
          out_exists, out_jsonl, raw, count_written, missing_meta, missing_file,
          index_calls, reports, arg, ret>>

extract_vars == <<id_file, meta_tables, files, err, ids, by_problem, gi, si, idx,
                  out_exists, out_jsonl, raw, count_written, missing_meta,
                  missing_file, index_calls, reports>>

---------------------------------------------------------------------------
(* Strings *)

Min(S) == CHOOSE x \in S : \A y \in S : x <= y
Max(S) == CHOOSE x \in S : \A y \in S : x >= y

\* str.isspace() on the characters the model draws from
Whitespace == {" ", "\t", "\n"}

\* str.strip()
Strip(s) ==
    LET keep == {i \in 1..Len(s) : s[i] \notin Whitespace}
    IN  IF keep = {} THEN <<>> ELSE SubSeq(s, Min(keep), Max(keep))

\* needle in hay
Contains(hay, needle) ==
    \E i \in 1..(Len(hay) - Len(needle) + 1) :
        SubSeq(hay, i, i + Len(needle) - 1) = needle

UpperCaseLetters == <<"A", "C", "E", "L", "M", "R", "T", "W", "X">>
LowerCaseLetters == <<"a", "c", "e", "l", "m", "r", "t", "w", "x">>

LetterIndex(letters, c) == CHOOSE i \in 1..Len(letters) : letters[i] = c

UpperChar(c) ==
    IF \E i \in 1..Len(LowerCaseLetters) : LowerCaseLetters[i] = c
    THEN UpperCaseLetters[LetterIndex(LowerCaseLetters, c)]
    ELSE c

LowerChar(c) ==
    IF \E i \in 1..Len(UpperCaseLetters) : UpperCaseLetters[i] = c
    THEN LowerCaseLetters[LetterIndex(UpperCaseLetters, c)]
    ELSE c

\* str.upper(), str.lower()
Upper(s) == [i \in 1..Len(s) |-> UpperChar(s[i])]
Lower(s) == [i \in 1..Len(s) |-> LowerChar(s[i])]

\* \d on the characters the model draws from
Digits == {"0", "1", "2", "3", "4", "5", "6", "7", "8", "9"}

IsDigits(s) == \A i \in 1..Len(s) : s[i] \in Digits

---------------------------------------------------------------------------
(* load_id_list *)

\* The number of digits of a problem id in ID_PAT, p\d{5}.
PidDigits == 5

\* The positions at which $ matches in s: at the end of the string and, as
\* re.match is called without re.MULTILINE, just before a newline that ends it.
DollarPositions(s) ==
    {Len(s)} \cup (IF Len(s) > 0 /\ s[Len(s)] = "\n" THEN {Len(s) - 1} ELSE {})

\* ID_PAT.match(item) for ^(p\d{5})_s(\d+)$: the set of ends e of group 2 for
\* which the pattern matches (empty when there is no match, else one end).
ID_PAT_ends(item) ==
    {e \in DollarPositions(item) :
        /\ e >= PidDigits + 4
        /\ item[1] = "p"
        /\ IsDigits(SubSeq(item, 2, PidDigits + 1))
        /\ item[PidDigits + 2] = "_"
        /\ item[PidDigits + 3] = "s"
        /\ IsDigits(SubSeq(item, PidDigits + 4, e))}

ID_PAT_match(item) == ID_PAT_ends(item) # {}
ID_PAT_group1(item) == SubSeq(item, 1, PidDigits + 1)
ID_PAT_group2(item) ==
    SubSeq(item, PidDigits + 4, CHOOSE e \in ID_PAT_ends(item) : TRUE)

\* An entry of the JSON array.  kind is "str" (the string is in str), "dict"
\* (has_pid / has_sid say whether the key is present, pid / sid hold its value)
\* or "other" (a number, a list, null, ...).
StrEntry(s) ==
    [kind |-> "str", str |-> s, has_pid |-> FALSE, pid |-> <<>>,
     has_sid |-> FALSE, sid |-> <<>>]
DictEntry(hp, p, hs, s) ==
    [kind |-> "dict", str |-> <<>>, has_pid |-> hp, pid |-> p,
     has_sid |-> hs, sid |-> s]
OtherEntry ==
    [kind |-> "other", str |-> <<>>, has_pid |-> FALSE, pid |-> <<>>,
     has_sid |-> FALSE, sid |-> <<>>]

NoEntry ==
    [kind |-> "none", str |-> <<>>, has_pid |-> FALSE, pid |-> <<>>,
     has_sid |-> FALSE, sid |-> <<>>]
NoError == [type |-> "none", msg |-> "", item |-> NoEntry]
ValueError(m, item) == [type |-> "ValueError", msg |-> m, item |-> item]

\* bool(item.get(key)): the key is present and its value is not empty
TruthyPid(item) == item.has_pid /\ item.pid # <<>>
TruthySid(item) == item.has_sid /\ item.sid # <<>>

\* The iteration with the submission id left as the digits matched.
LoadEntryNoPrefix(item) ==
    IF item.kind = "str"
    THEN IF ~ID_PAT_match(item.str)
         THEN [ok |-> FALSE, pair |-> <<>>,
               error |-> ValueError("Unrecognized id format", item)]
         ELSE [ok |-> TRUE,
               pair |-> <<ID_PAT_group1(item.str), ID_PAT_group2(item.str)>>,
               error |-> NoError]
    ELSE IF item.kind = "dict"
    THEN IF ~(TruthyPid(item) /\ TruthySid(item))
         THEN [ok |-> FALSE, pair |-> <<>>,
               error |-> ValueError("Dict id missing keys", item)]
         ELSE [ok |-> TRUE, pair |-> <<item.pid, item.sid>>, error |-> NoError]
    ELSE [ok |-> FALSE, pair |-> <<>>,
          error |-> ValueError("Unsupported id entry", item)]

\* One iteration of the loop over data: the pair appended, or the error raised.
LoadEntry(item) ==
    IF item.kind = "str"
    THEN IF ~ID_PAT_match(item.str)
         THEN [ok |-> FALSE, pair |-> <<>>,
               error |-> ValueError("Unrecognized id format", item)]
         ELSE [ok |-> TRUE,
               pair |-> <<ID_PAT_group1(item.str),
                          <<"s">> \o ID_PAT_group2(item.str)>>,
               error |-> NoError]
    ELSE IF item.kind = "dict"
    THEN IF ~(TruthyPid(item) /\ TruthySid(item))
         THEN [ok |-> FALSE, pair |-> <<>>,
               error |-> ValueError("Dict id missing keys", item)]
         ELSE [ok |-> TRUE, pair |-> <<item.pid, item.sid>>, error |-> NoError]
    ELSE [ok |-> FALSE, pair |-> <<>>,
          error |-> ValueError("Unsupported id entry", item)]

RECURSIVE LoadFrom(_, _, _)
LoadFrom(data, i, acc) ==
    IF i > Len(data)
    THEN [ok |-> TRUE, ids |-> acc, error |-> NoError]
    ELSE LET r == LoadEntry(data[i])
         IN  IF r.ok
             THEN LoadFrom(data, i + 1, Append(acc, r.pair))
             ELSE [ok |-> FALSE, ids |-> <<>>, error |-> r.error]

\* load_id_list(fpath), on the parsed content of fpath
load_id_list(data) == LoadFrom(data, 1, <<>>)

---------------------------------------------------------------------------
(* build_submission_index *)

\* A row of a metadata table, as csv.DictReader yields it.  The code reads
\* every field as  row.get(k) or ...,  which treats a missing field and an
\* empty one alike: <<>> stands for both.
Row(sid, id, language, filename, status, result) ==
    [submission_id |-> sid, id |-> id, language |-> language,
     filename |-> filename, status |-> status, result |-> result]

PYTHON == <<"P", "y", "t", "h", "o", "n">>
C_LANG == <<"C">>
CPP_LANG == <<"C", "+", "+">>
EXT_PY == <<".", "p", "y">>
EXT_C == <<".", "c">>
EXT_CPP == <<".", "c", "p", "p">>

\* The guess without the test for "C++": every label with a C in it is C.
GuessExtAnyC(language) ==
    IF Contains(language, PYTHON) THEN EXT_PY
    ELSE IF Contains(language, C_LANG) THEN EXT_C
    ELSE EXT_CPP

\* The fallback extension, guessed from the language.
GuessExt(language) ==
    IF Contains(language, PYTHON) THEN EXT_PY
    ELSE IF Contains(language, C_LANG) /\ ~Contains(language, CPP_LANG) THEN EXT_C
    ELSE EXT_CPP

\* row.get("submission_id") or row.get("id")
RowSid(row) == IF row.submission_id # <<>> THEN row.submission_id ELSE row.id

\* The value stored for a row: (language, filename, row).
IndexEntry(row) ==
    LET sid == RowSid(row)
        language == Strip(row.language)
        filename == Strip(row.filename)
    IN  [language |-> language,
         filename |-> IF filename = <<>> THEN sid \o GuessExt(language)
                      ELSE filename,
         row |-> row]

\* The loop over the table's rows: a row without sid is dropped, a later row
\* replaces an earlier one of the same sid.
RECURSIVE IndexFrom(_, _, _)
IndexFrom(rows, i, acc) ==
    IF i > Len(rows) THEN acc
    ELSE IF RowSid(rows[i]) = <<>> THEN IndexFrom(rows, i + 1, acc)
    ELSE IndexFrom(rows, i + 1,
                   (RowSid(rows[i]) :> IndexEntry(rows[i])) @@ acc)

FileNotFoundError(problem_id) ==
    [type |-> "FileNotFoundError", msg |-> "Missing metadata csv",
     item |-> StrEntry(problem_id)]

\* build_submission_index(problem_id), with the metadata directory as meta
build_submission_index(meta, problem_id) ==
    IF problem_id \notin DOMAIN meta
    THEN [ok |-> FALSE, idx |-> <<>>, error |-> FileNotFoundError(problem_id)]
    ELSE [ok |-> TRUE, idx |-> IndexFrom(meta[problem_id], 1, <<>>),
          error |-> NoError]

---------------------------------------------------------------------------
(* resolve_source_path *)

\* CODENET_ROOT / "Project_CodeNet" / "data" / problem_id / language / filename:
\* the path below the data directory.  submission_id is not used.
resolve_source_path(problem_id, submission_id, language, filename) ==
    <<problem_id, language, filename>>

---------------------------------------------------------------------------
(* map_status_to_label *)

UNKNOWN == <<"u", "n", "k", "n", "o", "w", "n">>
NO_ERROR == <<"n", "o", "_", "e", "r", "r", "o", "r">>
RUNTIME_ERROR ==
    <<"r", "u", "n", "t", "i", "m", "e", "_", "e", "r", "r", "o", "r">>
TIMEOUT == <<"t", "i", "m", "e", "o", "u", "t">>
MEMORY_LIMIT == <<"m", "e", "m", "o", "r", "y", "_", "l", "i", "m", "i", "t">>
COMPILE_ERROR ==
    <<"c", "o", "m", "p", "i", "l", "e", "_", "e", "r", "r", "o", "r">>
WRONG_ANSWER == <<"w", "r", "o", "n", "g", "_", "a", "n", "s", "w", "e", "r">>

map_status_to_label(status) ==
    IF status = <<>> THEN UNKNOWN
    ELSE LET s == Upper(Strip(status))
         IN  IF s = <<"A", "C">> THEN NO_ERROR
             ELSE IF s = <<"R", "E">> THEN RUNTIME_ERROR
             ELSE IF s = <<"T", "L", "E">> THEN TIMEOUT
             ELSE IF s = <<"M", "L", "E">> THEN MEMORY_LIMIT
             ELSE IF s = <<"C", "E">> THEN COMPILE_ERROR
             ELSE IF s = <<"W", "A">> THEN WRONG_ANSWER
             ELSE Lower(s)

---------------------------------------------------------------------------
(* The ID files and corpora extract_split is run on *)

\* The longest ID list extract_split is run on.
MaxIds == 3

\* How many times in a row the program is run.
MaxRuns == 2

NotReturned == [returned |-> FALSE]

SeqsUpTo(S, n) == UNION {[1..k -> S] : k \in 0..n}

P00001 == <<"p", "0", "0", "0", "0", "1">>
P00002 == <<"p", "0", "0", "0", "0", "2">>
S1 == <<"s", "1">>
S2 == <<"s", "2">>
S3 == <<"s", "3">>
S9 == <<"s", "9">>
A_PY == <<"a", ".", "p", "y">>
B_C == <<"b", ".", "c">>
AC == <<"A", "C">>
TLE == <<"T", "L", "E">>

\* The entries an ID file is made of: tokens of submissions s1 and s2 (both
\* in p00001's table), a token of s3 (in no table) that a newline follows, a
\* record for p00002's s1, and a token with four digits.
SplitEntries ==
    {StrEntry(P00001 \o <<"_">> \o S1),
     StrEntry(P00001 \o <<"_">> \o S2),
     StrEntry(P00001 \o <<"_">> \o S3 \o <<"\n">>),
     DictEntry(TRUE, P00002, TRUE, S1),
     StrEntry(<<"p", "0", "0", "0", "1", "_", "s", "1">>)}

\* metadata/p00001.csv and metadata/p00002.csv, when they exist
Table1 ==
    <<Row(S1, <<>>, PYTHON, A_PY, AC, <<>>),
      Row(S2, <<>>, CPP_LANG, <<>>, <<>>, <<"W", "A">>)>>
Table2 ==
    <<Row(<<>>, S1, C_LANG, B_C, TLE, <<>>)>>

File(text) == [readable |-> TRUE, text |-> text]
Unreadable == [readable |-> FALSE, text |-> ""]

Corpus(meta, data) == [meta |-> meta, data |-> data]

\* What the corpus holds of p00001: no table (the data directory then plays
\* no part), or the table and each of p00001/Python/a.py and
\* p00001/C++/s2.cpp there or not.
Corpora1 ==
    {Corpus(<<>>, <<>>)}
    \cup {Corpus((P00001 :> Table1), a @@ b) :
            a \in {<<>>, (<<P00001, PYTHON, A_PY>> :> File("print(1)"))},
            b \in {<<>>, (<<P00001, CPP_LANG, S2 \o EXT_CPP>>
                              :> File("int main(){}"))}}

\* What the corpus holds of p00002: no table, or the table and p00002/C/b.c a
\* file or something that exists and cannot be read.
Corpora2 ==
    {Corpus(<<>>, <<>>)}
    \cup {Corpus((P00002 :> Table2), c) :
            c \in {(<<P00002, C_LANG, B_C>> :> File("main(){}")),
                   (<<P00002, C_LANG, B_C>> :> Unreadable)}}

Corpora ==
    {Corpus(c1.meta @@ c2.meta, c1.data @@ c2.data) :
        c1 \in Corpora1, c2 \in Corpora2}

---------------------------------------------------------------------------
(* extract_split *)

\* The same with a set of submissions per problem: a repeated sid is dropped.
GroupAppendOnce(groups, pid, sid) ==
    IF \E k \in 1..Len(groups) : groups[k].pid = pid
    THEN LET k == CHOOSE k \in 1..Len(groups) : groups[k].pid = pid
         IN  IF \E j \in 1..Len(groups[k].sids) : groups[k].sids[j] = sid
             THEN groups
             ELSE [groups EXCEPT ![k].sids = Append(@, sid)]
    ELSE Append(groups, [pid |-> pid, sids |-> <<sid>>])

\* by_problem.setdefault(pid, []).append(sid) on the insertion-ordered dict
GroupAppend(groups, pid, sid) ==
    IF \E k \in 1..Len(groups) : groups[k].pid = pid
    THEN LET k == CHOOSE k \in 1..Len(groups) : groups[k].pid = pid
         IN  [groups EXCEPT ![k].sids = Append(@, sid)]
    ELSE Append(groups, [pid |-> pid, sids |-> <<sid>>])

RECURSIVE GroupFrom(_, _, _)
GroupFrom(pairs, i, groups) ==
    IF i > Len(pairs) THEN groups
    ELSE GroupFrom(pairs, i + 1, GroupAppend(groups, pairs[i][1], pairs[i][2]))

\* for pid, sid in ids: by_problem.setdefault(pid, []).append(sid)
GroupByProblem(pairs) == GroupFrom(pairs, 1, <<>>)

\* open(out_jsonl, "a"): the lines of the file once opened for appending
OpenForAppend(lines) == lines

\* open(out_jsonl, "w"): the lines of the file once opened
OpenForWrite(lines) == <<>>

\* missing_meta += 1 for the group
SkipGroupAsOne(count, sids) == count + 1

\* missing_meta += len(sids)
SkipGroup(count, sids) == count + Len(sids)

OSError(path) ==
    [type |-> "OSError", msg |-> "read_text",
     item |-> StrEntry(path[1] \o <<"/">> \o path[2] \o <<"/">> \o path[3])]

\* The outcome with a missing file counted as missing metadata.
SubmissionOutcomeNoFileCheck(index, pid, sid) ==
    IF sid \notin DOMAIN index THEN "missing_meta"
    ELSE LET path == resolve_source_path(pid, sid, index[sid].language,
                                         index[sid].filename)
         IN  IF path \notin DOMAIN files THEN "missing_meta"
             ELSE IF ~files[path].readable THEN "unreadable"
             ELSE "written"

\* The outcome with a missing file skipped and not counted.
SubmissionOutcomeSilentSkip(index, pid, sid) ==
    IF sid \notin DOMAIN index THEN "missing_meta"
    ELSE LET path == resolve_source_path(pid, sid, index[sid].language,
                                         index[sid].filename)
         IN  IF path \notin DOMAIN files THEN "skipped"
             ELSE IF ~files[path].readable THEN "unreadable"
             ELSE "written"

\* What becomes of one submission of the current group, index being the
\* problem's index: a missing row, a missing file, a file that exists and
\* cannot be read, or a record.
SubmissionOutcome(index, pid, sid) ==
    IF sid \notin DOMAIN index THEN "missing_meta"
    ELSE LET path == resolve_source_path(pid, sid, index[sid].language,
                                         index[sid].filename)
         IN  IF path \notin DOMAIN files THEN "missing_file"
             ELSE IF ~files[path].readable THEN "unreadable"
             ELSE "written"

\* meta.get("status") or meta.get("result") or ""
RowStatus(meta) == IF meta.status # <<>> THEN meta.status ELSE meta.result

\* rec, the record of a resolved submission
Record(index, pid, sid) ==
    LET e == index[sid]
        path == resolve_source_path(pid, sid, e.language, e.filename)
    IN  [problem_id |-> pid, submission_id |-> sid, language |-> e.language,
         filename |-> e.filename, status |-> RowStatus(e.row),
         label |-> map_status_to_label(RowStatus(e.row)),
         code |-> files[path].text]

\* shutil.copy2(src_path, raw_root / pid / language / filename): the raw tree
\* with the file at that place created or replaced
CopyRaw(tree, index, pid, sid) ==
    LET e == index[sid]
        src == resolve_source_path(pid, sid, e.language, e.filename)
        dest == <<pid, e.language, e.filename>>
    IN  {f \in tree : f.path # dest}
        \cup {[path |-> dest, code |-> files[src].text]}

\* What a run leaves behind: the output file, the raw tree, and the counters
\* it reports.
Report(status) ==
    [status |-> status, out_exists |-> out_exists, out_jsonl |-> out_jsonl,
     raw |-> raw, count_written |-> count_written,
     missing_meta |-> missing_meta, missing_file |-> missing_file]

\* ids = load_id_list(id_file); the counters; the grouping by problem.  The ID
\* file exists: SPLIT_DIR holds the three split files.
LoadIds ==
    /\ pc = "start"
    /\ LET r == load_id_list(id_file) IN
       IF r.ok
       THEN /\ pc' = "open"
            /\ ids' = r.ids
            /\ by_problem' = GroupByProblem(r.ids)
            /\ count_written' = 0
            /\ missing_meta' = 0
            /\ missing_file' = 0
            /\ UNCHANGED <<err, reports>>
       ELSE /\ pc' = "failed"
            /\ err' = r.error
            /\ reports' = Append(reports, Report("failed"))
            /\ UNCHANGED <<ids, by_problem, count_written, missing_meta,
                           missing_file>>
    /\ UNCHANGED <<id_file, meta_tables, files, gi, si, idx, out_exists,
                   out_jsonl, raw, index_calls, arg, ret>>

\* with out_jsonl.open("w", encoding="utf-8") as out:
OpenOut ==
    /\ pc = "open"
    /\ pc' = "index"
    /\ out_exists' = TRUE
    /\ out_jsonl' = OpenForWrite(out_jsonl)
    /\ gi' = 1
    /\ UNCHANGED <<id_file, meta_tables, files, err, ids, by_problem, si, idx,
                   raw, count_written, missing_meta, missing_file,
                   index_calls, reports, arg, ret>>

\* for pid, sids in by_problem.items(): idx = build_submission_index(pid),
\* or the whole group skipped when the table is missing
BuildIndex ==
    /\ pc = "index"
    /\ gi <= Len(by_problem)
    /\ LET pid == by_problem[gi].pid
           sids == by_problem[gi].sids
           r == build_submission_index(meta_tables, pid)
       IN  /\ index_calls' = Append(index_calls, pid)
           /\ IF r.ok
              THEN /\ idx' = r.idx
                   /\ si' = 1
                   /\ pc' = "sid"
                   /\ UNCHANGED <<gi, missing_meta>>
              ELSE /\ missing_meta' = SkipGroup(missing_meta, sids)
                   /\ gi' = gi + 1
                   /\ UNCHANGED <<idx, si, pc>>
    /\ UNCHANGED <<id_file, meta_tables, files, err, ids, by_problem,
                   out_exists, out_jsonl, raw, count_written, missing_file,
                   reports, arg, ret>>

\* for sid in sids: one iteration, and the step to the next submission or,
\* after the group's last one, to the next problem
ProcessSid ==
    /\ pc = "sid"
    /\ LET pid == by_problem[gi].pid
           sids == by_problem[gi].sids
           sid == sids[si]
           outcome == SubmissionOutcome(idx, pid, sid)
       IN  /\ missing_meta' =
                  IF outcome = "missing_meta" THEN missing_meta + 1
                  ELSE missing_meta
           /\ missing_file' =
                  IF outcome = "missing_file" THEN missing_file + 1
                  ELSE missing_file
           /\ count_written' =
                  IF outcome = "written" THEN count_written + 1
                  ELSE count_written
           /\ out_jsonl' =
                  IF outcome = "written"
                  THEN Append(out_jsonl, Record(idx, pid, sid))
                  ELSE out_jsonl
           /\ raw' =
                  IF outcome = "written" THEN CopyRaw(raw, idx, pid, sid)
                  ELSE raw
           /\ IF outcome = "unreadable"
              THEN /\ pc' = "failed"
                   /\ err' = OSError(resolve_source_path(pid, sid,
                                  idx[sid].language, idx[sid].filename))
                   /\ reports' = Append(reports, Report("failed"))
                   /\ UNCHANGED <<gi, si>>
              ELSE /\ IF si < Len(sids)
                      THEN si' = si + 1 /\ UNCHANGED <<gi, pc>>
                      ELSE gi' = gi + 1 /\ pc' = "index" /\ UNCHANGED si
                   /\ UNCHANGED <<err, reports>>
    /\ UNCHANGED <<id_file, meta_tables, files, ids, by_problem, idx,
                   out_exists, index_calls, arg, ret>>

\* The loop is over: the file is closed and the counters are printed.
Finish ==
    /\ pc = "index"
    /\ gi > Len(by_problem)
    /\ pc' = "done"
    /\ reports' = Append(reports, Report("done"))
    /\ UNCHANGED <<id_file, meta_tables, files, err, ids, by_problem, gi, si,
                   idx, out_exists, out_jsonl, raw, count_written,
                   missing_meta, missing_file, index_calls, arg, ret>>

\* The program is run again on the same ID file and corpus: the output
\* directory is as the last run left it, the rest starts afresh.
Rerun ==
    /\ pc \in {"done", "failed"}
    /\ Len(reports) < MaxRuns
    /\ pc' = "start"
    /\ err' = NoError
    /\ ids' = <<>>
    /\ by_problem' = <<>>
    /\ gi' = 0
    /\ si' = 0
    /\ idx' = <<>>
    /\ count_written' = 0
    /\ missing_meta' = 0
    /\ missing_file' = 0
    /\ index_calls' = <<>>
    /\ UNCHANGED <<id_file, meta_tables, files, out_exists, out_jsonl, raw,
                   reports, arg, ret>>

Init ==
    /\ id_file \in SeqsUpTo(SplitEntries, MaxIds)
    /\ \E corpus \in Corpora :
           /\ meta_tables = corpus.meta
           /\ files = corpus.data
    /\ pc = "start"
    /\ err = NoError
    /\ ids = <<>>
    /\ by_problem = <<>>
    /\ gi = 0
    /\ si = 0
    /\ idx = <<>>
    /\ out_exists = FALSE
    /\ out_jsonl = <<>>
    /\ raw = {}
    /\ count_written = 0
    /\ missing_meta = 0
    /\ missing_file = 0
    /\ index_calls = <<>>
    /\ reports = <<>>
    /\ arg = <<>>
    /\ ret = NotReturned

Next ==
    \/ LoadIds
    \/ OpenOut
    \/ BuildIndex
    \/ ProcessSid
    \/ Finish
    \/ Rerun

Spec == Init /\ [][Next]_vars

---------------------------------------------------------------------------
(* The functions checked on their own: the argument is drawn in Init and  *)
(* one action applies the function to it.                                 *)

\* The variables of extract_split, at rest while a function is checked alone.
ExtractIdle ==
    /\ id_file = <<>>
    /\ files = <<>>
    /\ err = NoError
    /\ ids = <<>>
    /\ by_problem = <<>>
    /\ gi = 0
    /\ si = 0
    /\ idx = <<>>
    /\ out_exists = FALSE
    /\ out_jsonl = <<>>
    /\ raw = {}
    /\ count_written = 0
    /\ missing_meta = 0
    /\ missing_file = 0
    /\ index_calls = <<>>
    /\ reports = <<>>

\* The longest ID list load_id_list is checked on.
MaxLoadLen == 2

TokenPrefixes == {<<"p">>, <<"q">>}
TokenPidDigits ==
    {<<"0", "0", "0", "2">>, <<"0", "0", "0", "2", "3">>,
     <<"0", "0", "0", "2", "3", "4">>}
TokenSeparators == {<<"_", "s">>, <<"_">>}
TokenSidDigits == {<<>>, <<"0", "6">>}
TokenSuffixes == {<<>>, <<"\n">>}

\* Composite tokens, well-formed and malformed in every part.
LoadTokens ==
    {a \o b \o c \o d \o e :
        a \in TokenPrefixes, b \in TokenPidDigits, c \in TokenSeparators,
        d \in TokenSidDigits, e \in TokenSuffixes}
    \cup {<<"p", "0", "0", "0", "2", "x", "_", "s", "0", "6">>,
          <<"p", "0", "0", "0", "2", "3", "_", "s", "0", "a">>,
          <<"p", "0", "0", "0", "2", "3", "_", "s", "0", "6", "x">>,
          <<"p", "0", "0", "0", "2", "3", "_", "s", "0", "6", "\n", "\n">>}

DictPids == {<<>>, <<"p", "0", "0", "0", "2", "3">>, <<"f", "o", "o">>}
DictSids == {<<>>, <<"s", "0", "6">>}

LoadEntries ==
    {StrEntry(s) : s \in LoadTokens}
    \cup {DictEntry(TRUE, p, TRUE, s) : p \in DictPids, s \in DictSids}
    \cup {DictEntry(FALSE, <<>>, TRUE, s) : s \in DictSids}
    \cup {DictEntry(TRUE, p, FALSE, <<>>) : p \in DictPids}
    \cup {OtherEntry}

InitLoad ==
    /\ ExtractIdle
    /\ meta_tables = <<>>
    /\ pc = "call"
    /\ arg \in SeqsUpTo(LoadEntries, MaxLoadLen)
    /\ ret = NotReturned

CallLoad ==
    /\ pc = "call"
    /\ pc' = "return"
    /\ ret' = load_id_list(arg)
    /\ UNCHANGED <<arg, extract_vars>>

NextLoad == CallLoad

SpecLoad == InitLoad /\ [][NextLoad]_vars

---------------------------------------------------------------------------
(* build_submission_index on its own *)

\* The longest metadata table build_submission_index is checked on.
MaxRows == 2

RowKeys == {<<S1, <<>>>>, <<<<>>, S9>>, <<<<>>, <<>>>>}
RowLanguages ==
    {PYTHON, C_LANG, CPP_LANG, <<" ", "C", " ">>, <<"G", "o">>}
RowFilenames == {<<>>, A_PY, <<" ", "a", ".", "p", "y">>, <<" ">>}

IndexRows ==
    {Row(k[1], k[2], l, f, AC, <<>>) :
        k \in RowKeys, l \in RowLanguages, f \in RowFilenames}

InitIndex ==
    /\ ExtractIdle
    /\ pc = "call"
    /\ arg = P00001
    /\ \/ meta_tables = <<>>
       \/ \E rows \in SeqsUpTo(IndexRows, MaxRows) :
              meta_tables = (P00001 :> rows)
    /\ ret = NotReturned

CallIndex ==
    /\ pc = "call"
    /\ pc' = "return"
    /\ ret' = build_submission_index(meta_tables, arg)
    /\ UNCHANGED <<arg, extract_vars>>

NextIndex == CallIndex

SpecIndex == InitIndex /\ [][NextIndex]_vars

---------------------------------------------------------------------------
(* map_status_to_label on its own *)

\* The longest status map_status_to_label is checked on.
MaxStatusLen == 3

StatusChars ==
    {"A", "C", "E", "L", "M", "R", "T", "W", "a", "c", "x", " "}

InitLabel ==
    /\ ExtractIdle
    /\ meta_tables = <<>>
    /\ pc = "call"
    /\ arg \in SeqsUpTo(StatusChars, MaxStatusLen)
    /\ ret = NotReturned

CallLabel ==
    /\ pc = "call"
    /\ pc' = "return"
    /\ ret' = map_status_to_label(arg)
    /\ UNCHANGED <<arg, extract_vars>>

NextLabel == CallLabel

SpecLabel == InitLabel /\ [][NextLabel]_vars

---------------------------------------------------------------------------
(* What the claims say of an ID entry *)

\* 'p' + 5 digits
IsProblemId(s) ==
    /\ Len(s) = PidDigits + 1
    /\ s[1] = "p"
    /\ \A i \in 2..Len(s) : s[i] \in Digits

\* 'p' + 5 digits + '_s' + digits, the whole string
IsCompositeToken(s) ==
    /\ Len(s) >= PidDigits + 4
    /\ IsProblemId(SubSeq(s, 1, PidDigits + 1))
    /\ SubSeq(s, PidDigits + 2, PidDigits + 3) = <<"_", "s">>
    /\ \A i \in (PidDigits + 4)..Len(s) : s[i] \in Digits

\* a composite token, or a record with both fields present and not empty
WellFormed(item) ==
    \/ item.kind = "str" /\ IsCompositeToken(item.str)
    \/ /\ item.kind = "dict"
       /\ item.has_pid /\ item.pid # <<>>
       /\ item.has_sid /\ item.sid # <<>>

AllWellFormed(data) == \A i \in 1..Len(data) : WellFormed(data[i])

\* the pair a well-formed entry stands for
Decomposed(item) ==
    IF item.kind = "str"
    THEN <<SubSeq(item.str, 1, PidDigits + 1),
           <<"s">> \o SubSeq(item.str, PidDigits + 4, Len(item.str))>>
    ELSE <<item.pid, item.sid>>

---------------------------------------------------------------------------
(* Claims on load_id_list, under SpecLoad *)

\* C5: on a list of well-formed entries load_id_list returns as many pairs as
\* there are entries, in input order and with duplicates kept, the i-th pair
\* being the decomposition of the i-th entry.
C5_LoadDecomposes ==
    (pc = "return" /\ AllWellFormed(arg)) =>
        /\ ret.ok
        /\ Len(ret.ids) = Len(arg)
        /\ \A i \in 1..Len(arg) : ret.ids[i] = Decomposed(arg[i])

\* C5 witness: a list holding the same token twice was loaded, and so was a
\* list of a token and a record.
C5_Witness ==
    /\ pc = "return"
    /\ Len(arg) = MaxLoadLen
    /\ AllWellFormed(arg)
    /\ arg[1].kind = "str"
    /\ arg[1] = arg[Len(arg)]
    /\ Len(ret.ids) = MaxLoadLen

\* C8: every pair load_id_list returns has a problem_id matching 'p' + 5
\* digits, whichever form the entry had.
C8_PairsMatchPattern ==
    (pc = "return" /\ ret.ok) =>
        \A i \in 1..Len(ret.ids) : IsProblemId(ret.ids[i][1])

---------------------------------------------------------------------------
(* Claims on build_submission_index, under SpecIndex *)

\* the extension the claim gives for a language label
ClaimedExt(language) ==
    CASE Contains(language, PYTHON) -> EXT_PY
      [] ~Contains(language, PYTHON) /\ Contains(language, C_LANG)
            /\ ~Contains(language, CPP_LANG) -> EXT_C
      [] OTHER -> EXT_CPP

\* the rows of the table that was indexed
IndexedRows == meta_tables[arg]

\* the key of a row: its submission id, else its generic id
KeyOf(row) == IF row.submission_id = <<>> THEN row.id ELSE row.submission_id

\* C6 as stated: for every row with a submission id the index holds the row's
\* filename verbatim when it is not empty, and submission_id + extension when
\* it is.
C6_FilenameVerbatim ==
    (pc = "return" /\ ret.ok) =>
        \A i \in 1..Len(IndexedRows) :
            LET row == IndexedRows[i] IN
            KeyOf(row) # <<>> =>
                /\ KeyOf(row) \in DOMAIN ret.idx
                /\ ret.idx[KeyOf(row)].filename =
                       IF row.filename # <<>> THEN row.filename
                       ELSE KeyOf(row) \o ClaimedExt(row.language)

\* C6 as amended: for every row with a submission id that no later row of the
\* table shares, the index holds the row's filename stripped of surrounding
\* whitespace when that is not empty, and submission_id + extension when it is.
C6_FilenameStripped ==
    (pc = "return" /\ ret.ok) =>
        \A i \in 1..Len(IndexedRows) :
            LET row == IndexedRows[i] IN
            (/\ KeyOf(row) # <<>>
             /\ \A j \in (i + 1)..Len(IndexedRows) :
                    KeyOf(IndexedRows[j]) # KeyOf(row)) =>
                /\ KeyOf(row) \in DOMAIN ret.idx
                /\ ret.idx[KeyOf(row)].filename =
                       IF Strip(row.filename) # <<>> THEN Strip(row.filename)
                       ELSE KeyOf(row) \o ClaimedExt(row.language)

\* C6 witness: a table was indexed whose last row has language C++ and no
\* filename, and the index holds <submission_id>.cpp for it.
C6_Witness ==
    /\ pc = "return"
    /\ ret.ok
    /\ Len(IndexedRows) = MaxRows
    /\ IndexedRows[MaxRows].language = CPP_LANG
    /\ IndexedRows[MaxRows].filename = <<>>
    /\ IndexedRows[MaxRows].submission_id = S1
    /\ ret.idx[S1].filename = S1 \o EXT_CPP

---------------------------------------------------------------------------
(* Claims on map_status_to_label, under SpecLabel *)

\* the label the claim's table gives for a normalized status
ClaimedLabel(s) ==
    CASE s = <<"A", "C">> -> NO_ERROR
      [] s = <<"R", "E">> -> RUNTIME_ERROR
      [] s = <<"T", "L", "E">> -> TIMEOUT
      [] s = <<"M", "L", "E">> -> MEMORY_LIMIT
      [] s = <<"C", "E">> -> COMPILE_ERROR
      [] s = <<"W", "A">> -> WRONG_ANSWER
      [] OTHER -> Lower(s)

\* C4: map_status_to_label returns "unknown" for the empty status and, for
\* every other status, the table's label of the trimmed and uppercased status
\* or else its lowercased form, which is never the empty string.
C4_LabelTable ==
    pc = "return" =>
        /\ arg = <<>> => ret = UNKNOWN
        /\ arg # <<>> => (ret = ClaimedLabel(Upper(Strip(arg))) /\ ret # <<>>)

---------------------------------------------------------------------------
(* What the claims say of a run of extract_split *)

\* the problem has a metadata table
HasTable(pid) == pid \in DOMAIN meta_tables

\* the rows of the problem's table that are keyed by the submission
RowsOf(pid, sid) ==
    {i \in 1..Len(meta_tables[pid]) : KeyOf(meta_tables[pid][i]) = sid}

\* corpus root / data / problem_id / language / filename of the submission
PathOf(pid, sid) ==
    LET row == meta_tables[pid][Max(RowsOf(pid, sid))]
    IN  <<pid, Strip(row.language),
          IF Strip(row.filename) # <<>> THEN Strip(row.filename)
          ELSE sid \o ClaimedExt(Strip(row.language))>>

\* The outcome the corpus holds for an identifier.
KindOf(pair) ==
    IF ~HasTable(pair[1]) THEN "no_table"
    ELSE IF RowsOf(pair[1], pair[2]) = {} THEN "no_row"
    ELSE IF PathOf(pair[1], pair[2]) \notin DOMAIN files THEN "no_file"
    ELSE "resolvable"

\* how many entries of a sequence satisfy a test
CountOf(seq, Test(_)) == Cardinality({i \in 1..Len(seq) : Test(seq[i])})

\* the distinct problems of the list, in the order of their first occurrence
RECURSIVE DistinctProblems(_)
DistinctProblems(pairs) ==
    IF pairs = <<>> THEN <<>>
    ELSE LET n == Len(pairs)
             before == DistinctProblems(SubSeq(pairs, 1, n - 1))
         IN  IF \E k \in 1..Len(before) : before[k] = pairs[n][1]
             THEN before
             ELSE Append(before, pairs[n][1])

\* The ID list stably grouped by problem: problems in the order of their
\* first occurrence, the submissions of one problem in list order.
RECURSIVE GroupsInOrder(_, _)
GroupsInOrder(pairs, problems) ==
    IF problems = <<>> THEN <<>>
    ELSE SelectSeq(pairs, LAMBDA q : q[1] = Head(problems))
         \o GroupsInOrder(pairs, Tail(problems))

ProcessingOrder(pairs) == GroupsInOrder(pairs, DistinctProblems(pairs))

\* The identifier the loop is at, and how many occurrences it has dealt with.
InLoop == pc \in {"index", "sid", "done"}
CurrentPair == <<by_problem[gi].pid, by_problem[gi].sids[si]>>

RECURSIVE GroupSizes(_, _)
GroupSizes(groups, n) ==
    IF n = 0 THEN 0 ELSE Len(groups[n].sids) + GroupSizes(groups, n - 1)

Processed ==
    GroupSizes(by_problem, gi - 1) + (IF pc = "sid" THEN si - 1 ELSE 0)

IdOf(rec) == <<rec.problem_id, rec.submission_id>>
WrittenIds == [i \in 1..Len(out_jsonl) |-> IdOf(out_jsonl[i])]

IsResolvable(pair) == KindOf(pair) = "resolvable"
IsNoFile(pair) == KindOf(pair) = "no_file"
IsNoMeta(pair) == KindOf(pair) \in {"no_table", "no_row"}

---------------------------------------------------------------------------
(* Claims on extract_split, under Spec *)

\* C1: when an entry of the ID list is malformed the run fails in
\* load_id_list with an error naming a malformed entry, before anything is
\* processed: no output file is written, no counter is incremented and no raw
\* file is copied.
C1_MalformedFailsFast ==
    ~AllWellFormed(id_file) =>
        /\ pc \in {"start", "failed"}
        /\ pc = "failed" => (err.type = "ValueError" /\ ~WellFormed(err.item))
        /\ ~out_exists
        /\ out_jsonl = <<>>
        /\ raw = {}
        /\ count_written = 0 /\ missing_meta = 0 /\ missing_file = 0

\* The step of C2: an identifier with a row in its problem's table and no file
\* at its resolved path adds 1 to missing_file, changes nothing else that is
\* counted, written or copied, and leaves the run going.
C2_Step ==
    (pc = "sid" /\ IsNoFile(CurrentPair)) =>
        /\ missing_file' = missing_file + 1
        /\ count_written' = count_written
        /\ missing_meta' = missing_meta
        /\ out_jsonl' = out_jsonl
        /\ raw' = raw
        /\ pc' \in {"sid", "index"}
        /\ err' = NoError

\* C2: processing an identifier that has a row in its problem's table and no
\* file at its resolved path adds 1 to missing_file, leaves the other counters,
\* the output and the raw tree as they are and does not end the run; a run
\* that completes has counted every such occurrence and written no record for
\* any of them.
C2_MissingFile ==
    /\ [][C2_Step]_vars
    /\ [](pc = "done" =>
            /\ missing_file = CountOf(ids, IsNoFile)
            /\ \A i \in 1..Len(out_jsonl) : ~IsNoFile(IdOf(out_jsonl[i])))

\* C2 witness: a run completed in which an identifier without file came
\* before one that was written.
C2_Witness ==
    /\ pc = "done"
    /\ missing_file >= 1
    /\ count_written >= 1
    /\ \E i, j \in 1..Len(ids) :
           /\ i < j
           /\ ids[i][1] = ids[j][1]
           /\ IsNoFile(ids[i])
           /\ IsResolvable(ids[j])

\* The step of C3: a problem without metadata table adds its multiplicity in
\* the ID list to missing_meta, changes nothing else that is counted, written
\* or copied, and moves the loop on to the next problem.
C3_Step ==
    (pc = "index" /\ gi <= Len(by_problem) /\ ~HasTable(by_problem[gi].pid)) =>
        /\ missing_meta' = missing_meta
               + Cardinality({i \in 1..Len(ids) : ids[i][1] = by_problem[gi].pid})
        /\ missing_file' = missing_file
        /\ count_written' = count_written
        /\ out_jsonl' = out_jsonl
        /\ raw' = raw
        /\ pc' = "index"
        /\ gi' = gi + 1
        /\ err' = NoError

\* C3: when a problem has no metadata table, as many submissions as the ID
\* list holds for it are added to missing_meta in one step that writes no
\* record, counts no missing file and moves on to the next problem; a run that
\* completes has written no record for such a problem and a record for every
\* resolvable occurrence of the others.
C3_MissingTable ==
    /\ [][C3_Step]_vars
    /\ [](pc = "done" =>
            /\ \A i \in 1..Len(out_jsonl) : HasTable(out_jsonl[i].problem_id)
            /\ missing_meta = CountOf(ids, IsNoMeta)
            /\ count_written = CountOf(ids, IsResolvable))

\* C3 witness: a run completed whose first problem had no table and two
\* submissions in the list, and a later problem had a record written.
C3_Witness ==
    /\ pc = "done"
    /\ Len(ids) >= 3
    /\ ~HasTable(ids[1][1])
    /\ ids[2][1] = ids[1][1]
    /\ missing_meta = 2
    /\ count_written >= 1

\* C7: a run leaves the output file, the raw tree and the counters exactly as
\* the run before it left them.
C7_Idempotent ==
    \A r \in 1..(Len(reports) - 1) : reports[r + 1] = reports[r]

\* C7 witness: a second run completed that wrote records and copied files.
C7_Witness ==
    /\ Len(reports) >= 2
    /\ reports[2].status = "done"
    /\ Len(reports[2].out_jsonl) >= 2
    /\ reports[2].raw # {}
    /\ reports[2].missing_meta + reports[2].missing_file >= 1

\* C9: while the loop runs the three counters add up to the number of
\* occurrences dealt with; when the run completes they add up to the number of
\* IDs loaded and count_written is the number of lines of the output file.
C9_Conservation ==
    /\ InLoop => count_written + missing_meta + missing_file = Processed
    /\ pc = "done" =>
           /\ count_written + missing_meta + missing_file = Len(ids)
           /\ count_written = Len(out_jsonl)

\* C9 witness: a run completed with each of the three outcomes.
C9_Witness ==
    /\ pc = "done"
    /\ count_written >= 1
    /\ missing_meta >= 1
    /\ missing_file >= 1

\* C10: the records written are those of the resolvable occurrences among the
\* ones dealt with, in processing order; build_submission_index is called
\* once per distinct problem, in the order of first occurrence; an identifier
\* that occurs k times and resolves yields k records.
C10_EmissionOrder ==
    InLoop =>
        /\ WrittenIds =
               SelectSeq(SubSeq(ProcessingOrder(ids), 1, Processed), IsResolvable)
        /\ index_calls = SubSeq(DistinctProblems(ids), 1, Len(index_calls))
        /\ pc = "done" =>
               /\ index_calls = DistinctProblems(ids)
               /\ \A i \in 1..Len(ids) :
                      IsResolvable(ids[i]) =>
                          Cardinality({k \in 1..Len(out_jsonl) :
                                          IdOf(out_jsonl[k]) = ids[i]})
                              = Cardinality({k \in 1..Len(ids) : ids[k] = ids[i]})

\* C10 witness: a run completed on a list whose first and last entries are the
\* same resolvable identifier, with another problem between them.
C10_Witness ==
    /\ pc = "done"
    /\ Len(ids) >= 3
    /\ ids[1] = ids[3]
    /\ ids[2][1] # ids[1][1]
    /\ IsResolvable(ids[1])
    /\ IsResolvable(ids[2])
    /\ Len(out_jsonl) = Len(ids)

=============================================================================
